---- MODULE Spec2Model ----
(***************************************************************************)
(* The unlock session of the HPonzi front end: the TokenDashboard          *)
(* component (account, balance, demo flag, status snapshot), the           *)
(* CommitReveal component (number, pending flags, failure flag), the       *)
(* asynchronous handlers in flight with the values their closures          *)
(* captured, and the ledger the live backend talks to.                     *)
(***************************************************************************)
EXTENDS Integers, FiniteSets, Sequences, Bags, TLC

VARIABLES
    now,            \* Math.floor(Date.now() / 1000)
    block,          \* the ledger's block number
    ledger,         \* the contract's per-account storage
    walletAcct,     \* the account the wallet signs with (accounts[0])
    chainId,        \* the wallet's current chain (eth_chainId)
    connected,      \* TokenDashboard state
    account,        \* TokenDashboard state
    balance,        \* TokenDashboard state
    demoMode,       \* TokenDashboard state
    unlockStatus,   \* TokenDashboard state: the status snapshot
    listeners,      \* the accountsChanged callback is registered
    chainListener,  \* the chainChanged callback is registered
    number,         \* CommitReveal state
    isCommitting,   \* CommitReveal state
    isRevealing,    \* CommitReveal state
    unlockFailed,   \* CommitReveal state
    failToast,      \* a "Connection Failed" toast with its action is showing
    timers,         \* the setInterval(refreshStatus, 30000) timers now live
    ops,            \* bag of asynchronous handlers in flight
    steps,          \* user and wallet events still allowed (bounds the model)
    demoCommitted,  \* history: the number of the last simulated commit
    recipient,      \* TransferTokens: the recipient field
    amount,         \* TransferTokens: the amount field
    isTransferring, \* TransferTokens: a transfer is pending
    isSuccess,      \* TransferTokens: "Transfer Complete" is shown
    transferred,    \* history: tokens of the transfers reported successful
    timestamp,      \* the argument of a call of formatTimeRemaining
    remaining,      \* what the call returned
    caught,         \* the errors handed to the catch block of revealNumber
    returned,       \* the error fields revealNumber returned for them
    ev              \* the handler step that produced this state (history)

vars == <<now, block, ledger, walletAcct, chainId, chainListener, connected,
         account, balance, demoMode,
          unlockStatus, listeners, number, isCommitting, isRevealing,
          unlockFailed, failToast, timers, ops, steps,
          recipient, amount, isTransferring, isSuccess, transferred,
          timestamp, remaining, demoCommitted, caught, returned, ev>>

dash == <<connected, account, balance, demoMode, unlockStatus>>
form == <<number, isCommitting, isRevealing, unlockFailed>>
tform == <<recipient, amount, isTransferring, isSuccess>>
chain == <<block, ledger>>

----------------------------------------------------------------------------
(* Program constants *)

DAY == 86400

DemoBalanceTokens == 1000

(* Bounds of the model *)

StartTime == 200000
MaxDays == 1
MaxFine == 1
MaxBlock == 2
ExpiryBlocks == 1
MaxOps == 2
MaxSteps == 5
MaxStepsDemo == 8
MaxStepsLive == 6
MaxStepsTransfer == 6
MaxDiff == 7300
HOUR == 3600
MINUTE == 60

(* the required chain (BASE Sepolia, 84532) and some other chain *)
RequiredChain == "0x14a34"
Chains == {RequiredChain, "0x1"}

LiveAccounts == {"0xA", "0xB"}
DemoAccount == "0xf39Fd6e51aad88F6F4ce6aB8827279cffFb92266"
Numbers == {7, 8}
NoNumber == 0

(* Token holdings on the ledger at the start, in whole tokens *)
InitialTokens(a) == IF a = "0xA" THEN 500 ELSE 0

----------------------------------------------------------------------------
(* Conversions *)

(* ethers.utils.formatEther on a whole number of tokens *)
FormatEther(n) == ToString(n) \o ".0"

(* Number.parseFloat on an amount string of the snapshot *)
parseFloat(str) ==
    IF str = "0" THEN 0
    ELSE CHOOSE n \in 0..DemoBalanceTokens : FormatEther(n) = str

(* The text of the amount field: empty, or a decimal number of tokens     *)
(* whole tokens plus dust units of the smallest unit, 10^-18 token         *)
NoAmount == [empty |-> TRUE, tokens |-> 0, dust |-> 0]
Typed(n, d) == [empty |-> FALSE, tokens |-> n, dust |-> d]

(* ethers.utils.parseEther: the exact value, as <<tokens, smallest units>> *)
parseEther(a) == <<a.tokens, a.dust>>

(* Number.parseFloat on the amount field: the nearest double.  From one    *)
(* token up a double is too coarse to hold 10^-18 (its step at 1.0 is      *)
(* 2^-52), so the dust is rounded away; below one token it is kept         *)
parseFloatAmount(a) ==
    IF a.tokens >= 1 \/ a.tokens <= -1 THEN <<a.tokens, 0>>
    ELSE <<a.tokens, a.dust>>

(* v > n and v <= 0, for a value <<tokens, smallest units>> *)
Greater(v, n) == v[1] > n \/ (v[1] = n /\ v[2] > 0)
NotPositive(v) == v[1] < 0 \/ (v[1] = 0 /\ v[2] = 0)

(* the contract's hash of a preimage; HashZero is the empty commit slot *)
HashZero == <<"hash", 0>>
HashOf(n) == <<"hash", n + 1>>

DemoBalance == FormatEther(DemoBalanceTokens)

DefaultStatus ==
    [isUnlocked |-> FALSE, unlockedUntil |-> 0, unlockedAmount |-> "0",
     nextAttemptTime |-> 0, hasCommit |-> FALSE]

----------------------------------------------------------------------------
(* The ledger: the deployed contract, observed through its read and write  *)
(* calls.  Its rules are those of the LedgerPort contract.                 *)

EmptySlot(tokens) ==
    [unlockedUntil |-> 0, unlockedAmount |-> 0, lastAttempt |-> 0,
     commitHash |-> HashZero, commitBlock |-> 0, balance |-> tokens]

LedgerInit == [a \in LiveAccounts |-> EmptySlot(InitialTokens(a))]

LedgerOf(a) == IF a \in DOMAIN ledger THEN ledger[a] ELSE EmptySlot(0)

(* commitHash(preimage): the one commit slot of the sender is overwritten *)
LedgerCommit(l, n, blk) ==
    [l EXCEPT !.commitHash = HashOf(n), !.commitBlock = blk]

(* revealAndUnlock(preimage): the outcome, by the six conditions in order *)
RevealOutcome(l, n, blk, t, lucky) ==
    IF l.commitHash = HashZero THEN "no commit found"
    ELSE IF blk <= l.commitBlock THEN "wait one block"
    ELSE IF HashOf(n) # l.commitHash THEN "hash mismatch"
    ELSE IF blk > l.commitBlock + ExpiryBlocks THEN "commit expired"
    ELSE IF t < l.lastAttempt + DAY THEN "one attempt per day"
    ELSE IF ~lucky THEN "random check failed"
    ELSE "success"

(* revealAndUnlock(preimage): the storage after the attempt *)
LedgerReveal(l, outcome, t) ==
    IF outcome = "success"
    THEN [l EXCEPT !.unlockedUntil = t + DAY, !.unlockedAmount = l.balance,
                   !.lastAttempt = t,
                   !.commitHash = HashZero, !.commitBlock = 0]
    ELSE [l EXCEPT !.lastAttempt = t,
                   !.commitHash = HashZero, !.commitBlock = 0]

(* transfer(to, amount) by the holder: the outcome *)
TransferOutcome(l, v, t) ==
    IF t > l.unlockedUntil THEN "tokens are locked"
    ELSE IF Greater(v, l.unlockedAmount) THEN "exceeds unlocked"
    ELSE IF Greater(v, l.balance) THEN "insufficient funds"
    ELSE "success"

(* transfer(to, amount): the storage after it *)
LedgerTransfer(l, v, outcome) ==
    IF outcome = "success"
    THEN [l EXCEPT !.balance = @ - v[1], !.unlockedAmount = @ - v[1]]
    ELSE l

----------------------------------------------------------------------------
(* lib/contract.ts *)

NoText == [text |-> "", hours |-> 0, minutes |-> 0]

formatTimeRemaining_roundsUp(t, nowSec) ==
    LET diff == t - nowSec
        hours == diff \div HOUR
        minutes == ((diff % HOUR) + MINUTE - 1) \div MINUTE
    IN  IF diff <= 0 THEN [text |-> "Expired", hours |-> 0, minutes |-> 0]
        ELSE [text |-> ToString(hours) \o "h " \o ToString(minutes) \o "m",
              hours |-> hours, minutes |-> minutes]

(* formatTimeRemaining(timestamp), with now = Math.floor(Date.now() / 1000): *)
(* the text, and the hours and minutes it was built from                   *)
formatTimeRemaining(t, nowSec) ==
    LET diff == t - nowSec
        hours == diff \div HOUR
        minutes == (diff % HOUR) \div MINUTE
    IN  IF diff <= 0 THEN [text |-> "Expired", hours |-> 0, minutes |-> 0]
        ELSE [text |-> ToString(hours) \o "h " \o ToString(minutes) \o "m",
              hours |-> hours, minutes |-> minutes]

checkIfTokensUnlocked_noDay(l, t) ==
    [isUnlocked |-> (t <= l.unlockedUntil /\ l.unlockedAmount > 0),
     unlockedUntil |-> l.unlockedUntil,
     unlockedAmount |-> FormatEther(l.unlockedAmount),
     nextAttemptTime |-> l.lastAttempt,
     hasCommit |-> (l.commitHash # HashZero)]

checkIfTokensUnlocked_fromNow(l, t) ==
    [isUnlocked |-> (t <= l.unlockedUntil /\ l.unlockedAmount > 0),
     unlockedUntil |-> l.unlockedUntil,
     unlockedAmount |-> FormatEther(l.unlockedAmount),
     nextAttemptTime |-> t + DAY,
     hasCommit |-> (l.commitHash # HashZero)]

checkIfTokensUnlocked(l, t) ==
    [isUnlocked |-> (t <= l.unlockedUntil /\ l.unlockedAmount > 0),
     unlockedUntil |-> l.unlockedUntil,
     unlockedAmount |-> FormatEther(l.unlockedAmount),
     nextAttemptTime |-> l.lastAttempt + DAY,
     hasCommit |-> (l.commitHash # HashZero)]

getTokenBalance(l) == FormatEther(l.balance)

(* revealNumber: success iff the receipt carries the TokensUnlocked event *)
revealNumberSuccess(outcome) == outcome = "success"

(* the six conditions under which revealAndUnlock rejects an attempt *)
Conditions ==
    {"no commit found", "wait one block", "hash mismatch", "commit expired",
     "one attempt per day", "random check failed"}

(* the contract's revert reason for each condition, word by word *)
RevertReason(c) ==
    CASE c = "one attempt per day" -> <<"Only", "one", "attempt", "per", "day">>
      [] c = "no commit found" -> <<"No", "commit", "found">>
      [] c = "wait one block" -> <<"Wait", "at", "least", "one", "block">>
      [] c = "hash mismatch" -> <<"Hash", "does", "not", "match">>
      [] c = "commit expired" -> <<"Commit", "expired">>
      [] c = "random check failed" -> <<"Unlock", "attempt", "failed">>

(* what the provider puts around a revert reason in error.message *)
Prefixes ==
    {<<>>, <<"execution", "reverted:">>,
     <<"VM", "Exception", "while", "processing", "transaction:", "revert">>}
Suffixes == {<<>>, <<"(code=CALL_EXCEPTION)">>}

(* error.message of an exception that is not a revert of the contract *)
HardErrors ==
    {<<"user", "rejected", "transaction">>, <<"could", "not", "detect",
       "network">>, <<"transaction", "failed">>}

(* the exceptions revealAndUnlock / tx.wait() can throw: the condition     *)
(* ("hard" if the ledger did not reject it) and error.message              *)
Thrown ==
    {[cond |-> c, message |-> pre \o RevertReason(c) \o post] :
         c \in Conditions, pre \in Prefixes, post \in Suffixes}
    \cup {[cond |-> "hard", message |-> m] : m \in HardErrors}

(* String.prototype.includes, on words *)
includes(message, phrase) ==
    \E i \in 0..(Len(message) - Len(phrase)) :
        SubSeq(message, i + 1, i + Len(phrase)) = phrase

errorMessage_noExpired(message) ==
    IF includes(message, <<"Only", "one", "attempt", "per", "day">>)
    THEN "You can only attempt to unlock once per day"
    ELSE IF includes(message, <<"No", "commit", "found">>)
    THEN "No commit found. Please commit a number first"
    ELSE IF includes(message, <<"Wait", "at", "least", "one", "block">>)
    THEN "Please wait at least one block after committing"
    ELSE IF includes(message, <<"Hash", "does", "not", "match">>)
    THEN "The number doesn't match your committed hash"
    ELSE IF includes(message, <<"Unlock", "attempt", "failed">>)
    THEN "Unlock attempt failed. You had a 20% chance of success (random number not divisible by 5)"
    ELSE "Transaction failed"

(* revealNumber, catch block: errorMessage from error.message *)
errorMessage(message) ==
    IF includes(message, <<"Only", "one", "attempt", "per", "day">>)
    THEN "You can only attempt to unlock once per day"
    ELSE IF includes(message, <<"No", "commit", "found">>)
    THEN "No commit found. Please commit a number first"
    ELSE IF includes(message, <<"Wait", "at", "least", "one", "block">>)
    THEN "Please wait at least one block after committing"
    ELSE IF includes(message, <<"Hash", "does", "not", "match">>)
    THEN "The number doesn't match your committed hash"
    ELSE IF includes(message, <<"Commit", "expired">>)
    THEN "Your commit has expired. Please commit again"
    ELSE IF includes(message, <<"Unlock", "attempt", "failed">>)
    THEN "Unlock attempt failed. You had a 20% chance of success (random number not divisible by 5)"
    ELSE "Transaction failed"

----------------------------------------------------------------------------
(* Handlers in flight.  An asynchronous handler suspended at an await is a *)
(* record of what its closure captured when it was called: demo, acct and  *)
(* conn are demoMode, account and connected of the render it came from;    *)
(* signer is the wallet account its transaction is signed with; num is the *)
(* parsed number; to and amt are the recipient and amount of a transfer.   *)
(* mounted says that the CommitReveal instance that called *)
(* it is still mounted (its state setters still act); cur says that the    *)
(* session it was called in is still the current one.                      *)

NewOp(kind, phase, via) ==
    [kind |-> kind, phase |-> phase, via |-> via,
     demo |-> demoMode, acct |-> account, conn |-> connected,
     signer |-> walletAcct, num |-> number, net |-> chainId,
     to |-> recipient, amt |-> amount,
     mounted |-> TRUE, cur |-> TRUE, res |-> "none"]

One(o) == SetToBag({o})

OpSet == BagToSet(ops)

RECURSIVE SumCopies(_, _)
SumCopies(S, B) ==
    IF S = {} THEN 0
    ELSE LET x == CHOOSE y \in S : TRUE
         IN  B[x] + SumCopies(S \ {x}, B)

MapOps(F(_), B) ==
    LET S == BagToSet(B)
        T == {F(x) : x \in S}
    IN  [y \in T |-> SumCopies({x \in S : F(x) = y}, B)]

----------------------------------------------------------------------------
(* refreshStatus, as a closure over (account, connected, demoMode)          *)

refreshRuns(acct, conn, demo) ==
    ~(acct = "" \/ (~conn /\ ~demo)) /\ ~demo

RefreshOp(acct, conn, isCur) ==
    [kind |-> "refresh", phase |-> "bal", via |-> "none",
     demo |-> FALSE, acct |-> acct, conn |-> conn,
     signer |-> "", num |-> NoNumber, net |-> "",
     to |-> <<>>, amt |-> NoAmount,
     mounted |-> FALSE, cur |-> isCur, res |-> "none"]

(* k calls of the refreshStatus that handler o captured *)
refreshStatusOf(o, k) ==
    IF refreshRuns(o.acct, o.conn, o.demo) /\ k > 0
    THEN [x \in {RefreshOp(o.acct, o.conn, o.cur)} |-> k]
    ELSE EmptyBag

----------------------------------------------------------------------------
(* What the CommitReveal component renders                                  *)

Mounted == connected \/ demoMode

inCooldown == now < unlockStatus.nextAttemptTime

FormShown == Mounted /\ ~unlockStatus.isUnlocked /\ ~unlockFailed

InputEnabled ==
    FormShown /\ ~(isCommitting \/ isRevealing \/ unlockStatus.hasCommit)

CommitEnabled_ignoresCommit ==
    FormShown /\ ~(number = NoNumber \/ isCommitting \/ isRevealing
                   \/ (inCooldown /\ ~demoMode))

CommitEnabled ==
    FormShown /\ ~(number = NoNumber \/ isCommitting \/ isRevealing
                   \/ unlockStatus.hasCommit \/ (inCooldown /\ ~demoMode))

RevealEnabled_noCommit ==
    FormShown /\ ~(isRevealing \/ (inCooldown /\ ~demoMode))

RevealEnabled ==
    FormShown /\ unlockStatus.hasCommit
    /\ ~(isRevealing \/ (inCooldown /\ ~demoMode))

FailedShown == Mounted /\ ~unlockStatus.isUnlocked /\ unlockFailed

----------------------------------------------------------------------------
(* Effects of a render on the handlers in flight                           *)

(* What a change of the dashboard does to the handlers in flight: when the *)
(* Tabs leave the tree the CommitReveal instance is gone, and when the     *)
(* connection ends or the account is switched for another their session is *)
(* over.                                                                   *)
After(B, c2, a2, d2) ==
    LET unmount == Mounted /\ ~(c2 \/ d2)
        over == (account # "" /\ a2 # account) \/ (connected /\ ~c2)
                \/ unmount
    IN  MapOps(LAMBDA o : [o EXCEPT !.mounted = o.mounted /\ ~unmount,
                                    !.cur = o.cur /\ ~over], B)

(* useEffect([connected, account, demoMode, refreshStatus]): refreshStatus *)
(* is called when a dependency changed and connected || demoMode           *)
periodicRefreshEffect(c2, a2, d2) ==
    IF <<c2, a2, d2>> # <<connected, account, demoMode>>
       /\ (c2 \/ d2) /\ refreshRuns(a2, c2, d2)
    THEN One(RefreshOp(a2, c2, TRUE))
    ELSE EmptyBag

(* the closure of refreshStatus a render hands to setInterval *)
Closure(c, a, d) == [acct |-> a, conn |-> c, demo |-> d]

pollingEffect_noCleanup(c2, a2, d2) ==
    IF <<c2, a2, d2>> = <<connected, account, demoMode>> THEN timers
    ELSE IF c2 \/ d2 THEN timers \cup {Closure(c2, a2, d2)}
    ELSE timers

(* useEffect([connected, account, demoMode, refreshStatus]): when a        *)
(* dependency changed the cleanup clears the interval of the last render,  *)
(* and a new one is set if connected || demoMode                           *)
pollingEffect(c2, a2, d2) ==
    IF <<c2, a2, d2>> = <<connected, account, demoMode>> THEN timers
    ELSE IF c2 \/ d2 THEN {Closure(c2, a2, d2)}
    ELSE {}

(* useEffect([connected, demoMode, handleAccountsChanged,                  *)
(* handleChainChanged]): when a dependency changed, the cleanup of a       *)
(* render that was connected and not in demo mode calls                    *)
(* removeEventListeners.  handleChainChanged is the same function in every *)
(* render, so the chainChanged callback is removed; handleAccountsChanged  *)
(* is a new function whenever account, connected or demoMode changed, so   *)
(* the registered accountsChanged callback is not the one passed and stays *)
listenerCleanup(c2, a2, d2) ==
    IF <<c2, a2, d2>> # <<connected, account, demoMode>>
       /\ connected /\ ~demoMode
    THEN FALSE
    ELSE chainListener

(* CommitReveal's state after a change of the dashboard: a new instance    *)
(* starts from its useState defaults                                        *)
FormAfter(c2, d2) ==
    IF Mounted /\ ~(c2 \/ d2)
    THEN /\ number' = NoNumber
         /\ isCommitting' = FALSE
         /\ isRevealing' = FALSE
         /\ unlockFailed' = FALSE
    ELSE UNCHANGED form

Fits == BagCardinality(ops') <= MaxOps

(* a user or wallet event *)
Event == steps > 0 /\ steps' = steps - 1
(* the continuation of a handler in flight *)
Completion == UNCHANGED steps
(* only the simulated commit records its number; the errors of the catch  *)
(* block of revealNumber are looked at on their own (SpecMsg), and the     *)
(* transfer form (SpecTransfer) and formatTimeRemaining (SpecFmt) on      *)
(* their own                                                               *)
Keep == UNCHANGED <<demoCommitted, caught, returned, tform, transferred,
                    timestamp, remaining>>

NoOp == RefreshOp("", FALSE, FALSE)
Ev(a, o, r) == [a |-> a, o |-> o, res |-> r]
NoEv == [a |-> "none", o |-> NoOp, res |-> "none"]

----------------------------------------------------------------------------
(* CommitReveal: the form                                                   *)

SetNumber(n) ==
    /\ Event
    /\ Keep
    /\ InputEnabled
    /\ n # number
    /\ number' = n
    /\ ev' = NoEv
    /\ UNCHANGED <<timers, now, chain, walletAcct, chainId, dash, listeners,
                   chainListener, failToast,
                   isCommitting, isRevealing, unlockFailed, ops>>

(* "Try Again Later" on the failure card *)
DismissFailed ==
    /\ Event
    /\ Keep
    /\ FailedShown
    /\ unlockFailed' = FALSE
    /\ number' = NoNumber
    /\ ev' = Ev("DismissFailed", NoOp, "none")
    /\ UNCHANGED <<timers, now, chain, walletAcct, chainId, dash, listeners,
                   chainListener, failToast,
                   isCommitting, isRevealing, ops>>

(* handleCommit up to its first await *)
handleCommit ==
    /\ Event
    /\ Keep
    /\ CommitEnabled
    /\ LET o == NewOp("commit", IF demoMode THEN "timer" ELSE "sent", "none")
       IN  /\ ops' = ops (+) One(o)
           /\ ev' = Ev("handleCommit", o, "none")
    /\ Fits
    /\ isCommitting' = TRUE
    /\ UNCHANGED <<timers, now, chain, walletAcct, chainId, dash, listeners,
                   chainListener, failToast,
                   number, isRevealing, unlockFailed>>

(* handleCommit, demo branch, after the 1500 ms delay *)
DemoCommitDone(o) ==
    /\ Completion
    /\ demoCommitted' = o.num
    /\ UNCHANGED <<caught, returned, tform, transferred, timestamp,
                   remaining>>
    /\ o.kind = "commit" /\ o.phase = "timer"
    /\ unlockStatus' = [unlockStatus EXCEPT !.hasCommit = TRUE]
    /\ ops' = (ops (-) One(o)) (+) refreshStatusOf(o, 1)
    /\ isCommitting' = (isCommitting /\ ~o.mounted)
    /\ ev' = Ev("CommitDone", o, "ok")
    /\ UNCHANGED <<timers, now, chain, walletAcct, chainId, connected,
                   account, balance,
                   demoMode, listeners, chainListener, failToast, number, isRevealing,
                   unlockFailed>>

(* the commitHash transaction is mined *)
CommitMined(o, blk) ==
    /\ Completion
    /\ Keep
    /\ o.kind = "commit" /\ o.phase \in {"sent", "orphan"}
    /\ o.signer \in DOMAIN ledger
    /\ o.net = RequiredChain
    /\ block' = blk
    /\ ledger' = [ledger EXCEPT ![o.signer] = LedgerCommit(@, o.num, blk)]
    /\ ops' = IF o.phase = "orphan" THEN ops (-) One(o)
              ELSE (ops (-) One(o)) (+) One([o EXCEPT !.phase = "mined"])
    /\ ev' = Ev("CommitMined", o, "ok")
    /\ UNCHANGED <<timers, now, walletAcct, chainId, dash, listeners,
                   chainListener, failToast, form>>

(* handleCommit, live branch, after commitNumber returned *)
CommitReturn(o) ==
    /\ Completion
    /\ Keep
    /\ o.kind = "commit" /\ o.phase = "mined"
    /\ ops' = (ops (-) One(o)) (+) refreshStatusOf(o, 1)
    /\ Fits
    /\ isCommitting' = (isCommitting /\ ~o.mounted)
    /\ ev' = Ev("CommitDone", o, "ok")
    /\ UNCHANGED <<timers, now, chain, walletAcct, chainId, dash, listeners,
                   chainListener, failToast,
                   number, isRevealing, unlockFailed>>

CommitThrow_noFinally(o) ==
    /\ Completion
    /\ Keep
    /\ o.kind = "commit" /\ o.phase = "sent"
    /\ ops' = ops (-) One(o)
    /\ ev' = Ev("CommitThrow", o, "error")
    /\ UNCHANGED <<timers, now, chain, walletAcct, chainId, dash, listeners,
                   chainListener, failToast,
                   number, isCommitting, isRevealing, unlockFailed>>

(* handleCommit, live branch: commitNumber threw (rejected, or transport) *)
CommitThrow(o) ==
    /\ Completion
    /\ Keep
    /\ o.kind = "commit" /\ o.phase = "sent"
    /\ ops' = ops (-) One(o)
    /\ isCommitting' = (isCommitting /\ ~o.mounted)
    /\ ev' = Ev("CommitThrow", o, "error")
    /\ UNCHANGED <<timers, now, chain, walletAcct, chainId, dash, listeners,
                   chainListener, failToast,
                   number, isRevealing, unlockFailed>>

----------------------------------------------------------------------------
(* TokenDashboard: the handlers handed to CommitReveal                      *)

handleDemoReveal_keepsCommit(success) ==
    IF success
    THEN [isUnlocked |-> TRUE, unlockedUntil |-> now + DAY,
          unlockedAmount |-> DemoBalance, nextAttemptTime |-> 0,
          hasCommit |-> FALSE]
    ELSE [isUnlocked |-> FALSE, unlockedUntil |-> 0, unlockedAmount |-> "0",
          nextAttemptTime |-> now + DAY, hasCommit |-> unlockStatus.hasCommit]

(* handleDemoReveal(success) *)
handleDemoReveal(success) ==
    IF success
    THEN [isUnlocked |-> TRUE, unlockedUntil |-> now + DAY,
          unlockedAmount |-> DemoBalance, nextAttemptTime |-> 0,
          hasCommit |-> FALSE]
    ELSE [isUnlocked |-> FALSE, unlockedUntil |-> 0, unlockedAmount |-> "0",
          nextAttemptTime |-> now + DAY, hasCommit |-> FALSE]

(* handleUnlock, demo branch *)
handleUnlockDemo ==
    [isUnlocked |-> TRUE, unlockedUntil |-> now + DAY,
     unlockedAmount |-> DemoBalance, nextAttemptTime |-> 0,
     hasCommit |-> FALSE]

(* handleReveal up to its first await *)
handleReveal ==
    /\ Event
    /\ Keep
    /\ RevealEnabled
    /\ number # NoNumber
    /\ LET o == NewOp("reveal", IF demoMode THEN "timer" ELSE "sent", "none")
       IN  /\ ops' = ops (+) One(o)
           /\ ev' = Ev("handleReveal", o, "none")
    /\ Fits
    /\ isRevealing' = TRUE
    /\ unlockFailed' = FALSE
    /\ UNCHANGED <<timers, now, chain, walletAcct, chainId, dash, listeners,
                   chainListener, failToast,
                   number, isCommitting>>

(* handleReveal, demo branch, after the 2000 ms delay: Math.random() < 0.2 *)
DemoRevealDone(o, success) ==
    /\ Completion
    /\ Keep
    /\ o.kind = "reveal" /\ o.phase = "timer"
    /\ unlockStatus' = IF success THEN handleUnlockDemo
                       ELSE handleDemoReveal(FALSE)
    /\ unlockFailed' = IF ~success /\ o.mounted THEN TRUE ELSE unlockFailed
    /\ ops' = (ops (-) One(o)) (+) refreshStatusOf(o, 1)
    /\ isRevealing' = (isRevealing /\ ~o.mounted)
    /\ ev' = Ev("RevealDone", o,
                IF success THEN "success" ELSE "random check failed")
    /\ UNCHANGED <<timers, now, chain, walletAcct, chainId, connected,
                   account, balance,
                   demoMode, listeners, chainListener, failToast, number, isCommitting>>

(* the revealAndUnlock transaction is mined *)
RevealMined(o, blk, lucky) ==
    /\ Completion
    /\ Keep
    /\ o.kind = "reveal" /\ o.phase \in {"sent", "orphan"}
    /\ o.signer \in DOMAIN ledger
    /\ o.net = RequiredChain
    /\ block' = blk
    /\ LET out == RevealOutcome(ledger[o.signer], o.num, blk, now, lucky)
       IN  /\ ledger' = [ledger EXCEPT ![o.signer] = LedgerReveal(@, out, now)]
           /\ ops' = IF o.phase = "orphan" THEN ops (-) One(o)
                     ELSE (ops (-) One(o))
                          (+) One([o EXCEPT !.phase = "mined", !.res = out])
           /\ ev' = Ev("RevealMined", o, out)
    /\ UNCHANGED <<timers, now, walletAcct, chainId, dash, listeners,
                   chainListener, failToast, form>>

(* handleReveal, live branch, after revealNumber returned a ledger outcome *)
RevealReturn(o) ==
    /\ Completion
    /\ Keep
    /\ o.kind = "reveal" /\ o.phase = "mined"
    /\ LET success == revealNumberSuccess(o.res)
       IN  /\ unlockFailed' = IF ~success /\ o.mounted THEN TRUE
                              ELSE unlockFailed
           /\ ops' = (ops (-) One(o))
                     (+) refreshStatusOf(o, IF success THEN 2 ELSE 1)
    /\ Fits
    /\ isRevealing' = (isRevealing /\ ~o.mounted)
    /\ ev' = Ev("RevealDone", o, o.res)
    /\ UNCHANGED <<timers, now, chain, walletAcct, chainId, dash, listeners,
                   chainListener, failToast,
                   number, isCommitting>>

(* handleReveal, live branch: the transaction never reached the ledger     *)
(* (rejected, or transport); revealNumber catches and returns no success   *)
RevealCaught(o) ==
    /\ Completion
    /\ Keep
    /\ o.kind = "reveal" /\ o.phase = "sent"
    /\ unlockFailed' = IF o.mounted THEN TRUE ELSE unlockFailed
    /\ ops' = (ops (-) One(o)) (+) refreshStatusOf(o, 1)
    /\ isRevealing' = (isRevealing /\ ~o.mounted)
    /\ ev' = Ev("RevealCaught", o, "Transaction failed")
    /\ UNCHANGED <<timers, now, chain, walletAcct, chainId, dash, listeners,
                   chainListener, failToast,
                   number, isCommitting>>

----------------------------------------------------------------------------
(* refreshStatus                                                            *)

(* a live interval fires: the refreshStatus it holds passes its guards *)
Poll(t) ==
    /\ Event
    /\ Keep
    /\ t \in timers
    /\ refreshRuns(t.acct, t.conn, t.demo)
    /\ ops' = ops (+) One(RefreshOp(t.acct, t.conn,
                                    t = Closure(connected, account, demoMode)))
    /\ Fits
    /\ ev' = Ev("Poll", NoOp, "none")
    /\ UNCHANGED <<timers, now, chain, walletAcct, chainId, dash, listeners,
                   chainListener, failToast, form>>

(* a live interval fires: the refreshStatus it holds returns at once (no   *)
(* account, or demo mode)                                                  *)
PollReturns(t) ==
    /\ Event
    /\ Keep
    /\ t \in timers
    /\ ~refreshRuns(t.acct, t.conn, t.demo)
    /\ ev' = Ev("PollReturns", NoOp, "none")
    /\ UNCHANGED <<timers, now, chain, walletAcct, chainId, dash, listeners,
                   chainListener, failToast,
                   form, ops>>

(* getTokenBalance(account) returned; setBalance *)
RefreshBalance(o) ==
    /\ Completion
    /\ Keep
    /\ o.kind = "refresh" /\ o.phase = "bal"
    /\ chainId = RequiredChain
    /\ balance' = getTokenBalance(LedgerOf(o.acct))
    /\ ops' = (ops (-) One(o)) (+) One([o EXCEPT !.phase = "status"])
    /\ ev' = Ev("RefreshBalance", o, "ok")
    /\ UNCHANGED <<timers, now, chain, walletAcct, chainId, connected,
                   account, demoMode,
                   unlockStatus, listeners, chainListener, failToast, form>>

RefreshStatus_consumesAttempt(o) ==
    /\ Completion
    /\ Keep
    /\ o.kind = "refresh" /\ o.phase = "status"
    /\ chainId = RequiredChain
    /\ unlockStatus' = checkIfTokensUnlocked(LedgerOf(o.acct), now)
    /\ ops' = ops (-) One(o)
    /\ ev' = Ev("RefreshStatus", o, "ok")
    /\ ledger' = [a \in DOMAIN ledger |->
                     IF a = o.acct THEN [ledger[a] EXCEPT !.lastAttempt = now]
                     ELSE ledger[a]]
    /\ UNCHANGED <<timers, now, block, walletAcct, chainId, connected,
                   account, balance,
                   demoMode, listeners, chainListener, failToast, form>>

(* checkIfTokensUnlocked(account) returned; setUnlockStatus *)
RefreshStatus(o) ==
    /\ Completion
    /\ Keep
    /\ o.kind = "refresh" /\ o.phase = "status"
    /\ chainId = RequiredChain
    /\ unlockStatus' = checkIfTokensUnlocked(LedgerOf(o.acct), now)
    /\ ops' = ops (-) One(o)
    /\ ev' = Ev("RefreshStatus", o, "ok")
    /\ UNCHANGED <<timers, now, chain, walletAcct, chainId, connected,
                   account, balance,
                   demoMode, listeners, chainListener, failToast, form>>

(* a ledger read threw: the catch block logs and nothing is set *)
RefreshThrow(o) ==
    /\ Completion
    /\ Keep
    /\ o.kind = "refresh"
    /\ ops' = ops (-) One(o)
    /\ ev' = Ev("RefreshThrow", o, "error")
    /\ UNCHANGED <<timers, now, chain, walletAcct, chainId, dash, listeners,
                   chainListener, failToast, form>>

(* a ledger read failed in the library version that catches: getTokenBalance *)
(* returns "0" and checkIfTokensUnlocked returns the default values, which *)
(* refreshStatus sets                                                      *)
RefreshCaught(o) ==
    /\ Completion
    /\ Keep
    /\ o.kind = "refresh"
    /\ IF o.phase = "bal"
       THEN /\ balance' = "0"
            /\ ops' = (ops (-) One(o)) (+) One([o EXCEPT !.phase = "status"])
            /\ UNCHANGED unlockStatus
       ELSE /\ unlockStatus' = DefaultStatus
            /\ ops' = ops (-) One(o)
            /\ UNCHANGED balance
    /\ ev' = Ev("RefreshCaught", o, o.phase)
    /\ UNCHANGED <<timers, now, chain, walletAcct, chainId, connected, account,
                   demoMode, listeners, chainListener, failToast, form>>

----------------------------------------------------------------------------
(* TokenDashboard: connecting and disconnecting                            *)

(* ConnectWallet's isConnecting: its own handleConnect awaits onConnect    *)
isConnecting == \E o \in OpSet : o.kind = "connect" /\ o.via = "button"

(* handleConnect, demo branch (the closure saw demoMode = true) *)
ConnectDemo ==
    /\ Event
    /\ Keep
    /\ ~connected /\ ~isConnecting
    /\ demoMode
    /\ connected' = TRUE
    /\ account' = DemoAccount
    /\ balance' = DemoBalance
    /\ unlockStatus' = DefaultStatus
    /\ demoMode' = demoMode
    /\ ops' = After(ops, TRUE, DemoAccount, demoMode)
              (+) periodicRefreshEffect(TRUE, DemoAccount, demoMode)
    /\ Fits
    /\ ev' = Ev("ConnectDemo", NoOp, "ok")
    /\ timers' = pollingEffect(TRUE, DemoAccount, demoMode)
    /\ chainListener' = listenerCleanup(TRUE, DemoAccount, demoMode)
    /\ UNCHANGED <<now, chain, walletAcct, chainId, listeners, failToast,
                   form>>

(* handleConnect, live branch, up to await connectWallet() *)
ConnectLive ==
    /\ Event
    /\ Keep
    /\ ~connected /\ ~isConnecting
    /\ ~demoMode
    /\ ops' = ops (+) One(NewOp("connect", "wallet", "button"))
    /\ Fits
    /\ ev' = Ev("ConnectLive", NoOp, "none")
    /\ UNCHANGED <<timers, now, chain, walletAcct, chainId, dash, listeners,
                   chainListener, failToast, form>>

(* "Try Demo Mode": setDemoMode(true); handleConnect() of this render,     *)
(* whose closure still holds demoMode = false                               *)
TryDemoMode ==
    /\ Event
    /\ Keep
    /\ ~connected /\ ~demoMode
    /\ demoMode' = TRUE
    /\ ops' = After(ops, connected, account, TRUE)
              (+) One(NewOp("connect", "wallet", "try"))
              (+) periodicRefreshEffect(connected, account, TRUE)
    /\ Fits
    /\ ev' = Ev("TryDemoMode", NoOp, "none")
    /\ timers' = pollingEffect(connected, account, TRUE)
    /\ chainListener' = listenerCleanup(connected, account, TRUE)
    /\ UNCHANGED <<now, chain, walletAcct, chainId, connected, account,
                   balance,
                   unlockStatus, listeners, failToast, form>>

(* "Use Demo Mode" on the failure toast: setDemoMode(true); handleConnect() *)
(* of the render whose connect failed, whose closure holds demoMode = false *)
UseDemoMode ==
    /\ Event
    /\ Keep
    /\ failToast
    /\ demoMode' = TRUE
    /\ failToast' = FALSE
    /\ ops' = After(ops, connected, account, TRUE)
              (+) One([NewOp("connect", "wallet", "toast") EXCEPT !.demo = FALSE])
              (+) periodicRefreshEffect(connected, account, TRUE)
    /\ Fits
    /\ ev' = Ev("UseDemoMode", NoOp, "none")
    /\ timers' = pollingEffect(connected, account, TRUE)
    /\ chainListener' = listenerCleanup(connected, account, TRUE)
    /\ UNCHANGED <<now, chain, walletAcct, chainId, connected, account,
                   balance,
                   unlockStatus, listeners, form>>

DismissToast ==
    /\ Event
    /\ Keep
    /\ failToast
    /\ failToast' = FALSE
    /\ ev' = NoEv
    /\ UNCHANGED <<timers, now, chain, walletAcct, chainId, dash, listeners,
                   chainListener, form, ops>>

(* connectWallet() returned accounts[0]; setAccount(account).  The chain   *)
(* matched ("match"), or wallet_switchEthereumChain succeeded ("switch"),  *)
(* or it failed with code 4902 and wallet_addEthereumChain succeeded       *)
(* ("add"); a switch while the chainChanged callback is registered is the  *)
(* ChainChanged step                                                       *)
ConnectResolve(o, how) ==
    /\ Completion
    /\ Keep
    /\ o.kind = "connect" /\ o.phase = "wallet"
    /\ IF how = "match" THEN chainId = RequiredChain /\ UNCHANGED chainId
       ELSE chainId # RequiredChain /\ ~chainListener
            /\ chainId' = RequiredChain
    /\ account' = walletAcct
    /\ ops' = After((ops (-) One(o)), connected, walletAcct, demoMode)
              (+) One([o EXCEPT !.phase = "load", !.acct = walletAcct])
              (+) periodicRefreshEffect(connected, walletAcct, demoMode)
    /\ Fits
    /\ ev' = Ev("ConnectResolve", o, how)
    /\ timers' = pollingEffect(connected, walletAcct, demoMode)
    /\ chainListener' = listenerCleanup(connected, walletAcct, demoMode)
    /\ UNCHANGED <<now, chain, walletAcct, connected, balance, demoMode,
                   unlockStatus, listeners, failToast, form>>

ConnectThrow_connects(o) ==
    /\ Completion
    /\ Keep
    /\ o.kind = "connect" /\ o.phase = "wallet"
    /\ ops' = ops (-) One(o)
    /\ failToast' = TRUE
    /\ connected' = TRUE
    /\ ev' = Ev("ConnectThrow", o, "error")
    /\ UNCHANGED <<timers, now, chain, walletAcct, chainId, account, balance,
                   demoMode, unlockStatus, listeners, chainListener, form>>

(* connectWallet() threw (no wallet, request rejected, the switch failed   *)
(* with another code, or the add failed) or returned no account: the catch *)
(* block toasts                                                            *)
ConnectThrow(o) ==
    /\ Completion
    /\ Keep
    /\ o.kind = "connect" /\ o.phase = "wallet"
    /\ ops' = ops (-) One(o)
    /\ failToast' = TRUE
    /\ ev' = Ev("ConnectThrow", o, "error")
    /\ UNCHANGED <<timers, now, chain, walletAcct, chainId, dash, listeners,
                   chainListener, form>>

(* handleConnect after the status and balance reads: reads is "both",      *)
(* "status" (getTokenBalance threw) or "none" (checkIfTokensUnlocked       *)
(* threw, as it does on another chain)                                     *)
ConnectFinish(o, reads) ==
    /\ Completion
    /\ Keep
    /\ o.kind = "connect" /\ o.phase = "load"
    /\ unlockStatus' = IF reads \in {"both", "status"}
                       THEN checkIfTokensUnlocked(LedgerOf(o.acct), now)
                       ELSE unlockStatus
    /\ balance' = IF reads = "both" THEN getTokenBalance(LedgerOf(o.acct))
                  ELSE balance
    /\ connected' = TRUE
    /\ listeners' = TRUE
    /\ chainListener' = TRUE
    /\ reads # "none" => chainId = RequiredChain
    /\ ops' = After((ops (-) One(o)), TRUE, account, demoMode)
              (+) periodicRefreshEffect(TRUE, account, demoMode)
    /\ Fits
    /\ ev' = Ev("ConnectFinish", o, reads)
    /\ timers' = pollingEffect(TRUE, account, demoMode)
    /\ UNCHANGED <<now, chain, walletAcct, chainId, account, demoMode,
                   failToast, form>>

(* handleDisconnect *)
handleDisconnect ==
    /\ Event
    /\ Keep
    /\ connected
    /\ connected' = FALSE
    /\ account' = ""
    /\ balance' = "0"
    /\ unlockStatus' = DefaultStatus
    /\ demoMode' = FALSE
    /\ ops' = After(ops, FALSE, "", FALSE)
    /\ FormAfter(FALSE, FALSE)
    /\ ev' = Ev("handleDisconnect", NoOp, "none")
    /\ timers' = pollingEffect(FALSE, "", FALSE)
    /\ chainListener' = listenerCleanup(FALSE, "", FALSE)
    /\ UNCHANGED <<now, chain, walletAcct, chainId, listeners, failToast>>

----------------------------------------------------------------------------
(* Wallet notifications                                                     *)

(* the wallet selects account b: handleAccountsChanged([b]) if registered. *)
(* The registered callback is the one of the render handleConnect was      *)
(* called in, so the refreshStatus it calls returns at once (connected and *)
(* demoMode were false there); the effect on [account] does the refresh.   *)
AccountsChanged(b) ==
    /\ Event
    /\ Keep
    /\ b # walletAcct
    /\ walletAcct' = b
    /\ IF listeners
       THEN /\ account' = b
            /\ ops' = After(ops, connected, b, demoMode)
                      (+) periodicRefreshEffect(connected, b, demoMode)
            /\ timers' = pollingEffect(connected, b, demoMode)
            /\ chainListener' = listenerCleanup(connected, b, demoMode)
            /\ Fits
       ELSE UNCHANGED <<account, ops, timers, chainListener>>
    /\ ev' = Ev("AccountsChanged", NoOp, "none")
    /\ UNCHANGED <<now, chain, connected, balance, demoMode, unlockStatus,
                   listeners, chainId, failToast, form>>

(* the wallet reports no account: handleAccountsChanged([]) *)
AccountsEmptied ==
    /\ Event
    /\ Keep
    /\ listeners
    /\ connected' = FALSE
    /\ account' = ""
    /\ balance' = "0"
    /\ unlockStatus' = DefaultStatus
    /\ ops' = After(ops, FALSE, "", demoMode)
    /\ FormAfter(FALSE, demoMode)
    /\ ev' = Ev("AccountsEmptied", NoOp, "none")
    /\ timers' = pollingEffect(FALSE, "", demoMode)
    /\ chainListener' = listenerCleanup(FALSE, "", demoMode)
    /\ UNCHANGED <<now, chain, walletAcct, chainId, demoMode, listeners,
                   failToast>>

ChainChanged_keepsSession ==
    /\ Event
    /\ Keep
    /\ chainListener
    /\ \E c \in Chains \ {chainId} : chainId' = c
    /\ ev' = Ev("ChainChanged", NoOp, "none")
    /\ UNCHANGED <<timers, now, chain, walletAcct, dash, listeners,
                   chainListener, failToast,
                   form, ops>>

(* handleChainChanged: window.location.reload().  The page starts over; a  *)
(* transaction already handed to the wallet is still mined.                 *)
ChainChanged ==
    /\ Event
    /\ Keep
    /\ chainListener
    /\ \E c \in Chains \ {chainId} : chainId' = c
    /\ chainListener' = FALSE
    /\ connected' = FALSE
    /\ account' = ""
    /\ balance' = "0"
    /\ demoMode' = FALSE
    /\ unlockStatus' = DefaultStatus
    /\ listeners' = FALSE
    /\ failToast' = FALSE
    /\ number' = NoNumber
    /\ isCommitting' = FALSE
    /\ isRevealing' = FALSE
    /\ unlockFailed' = FALSE
    /\ ops' = MapOps(LAMBDA o : [o EXCEPT !.phase = "orphan", !.mounted = FALSE,
                                          !.cur = FALSE],
                     [o \in {x \in OpSet : x.phase = "sent"} |-> ops[o]])
    /\ ev' = Ev("ChainChanged", NoOp, "none")
    /\ timers' = {}
    /\ UNCHANGED <<now, chain, walletAcct>>

(* the wallet changes chain while no chainChanged callback is registered: *)
(* nothing in the page runs                                                *)
ChainChangedUnheard ==
    /\ Event
    /\ Keep
    /\ ~chainListener
    /\ \E c \in Chains \ {chainId} : chainId' = c
    /\ ev' = Ev("ChainChangedUnheard", NoOp, "none")
    /\ UNCHANGED <<timers, now, chain, walletAcct, chainListener, dash,
                   listeners, failToast, form, ops>>

----------------------------------------------------------------------------
(* Time                                                                     *)

TickSecond ==
    /\ Completion
    /\ Keep
    /\ (now - StartTime) % DAY < MaxFine
    /\ now' = now + 1
    /\ ev' = NoEv
    /\ UNCHANGED <<timers, chain, walletAcct, chainId, dash, listeners,
                   chainListener, failToast, form, ops>>

TickDay ==
    /\ Completion
    /\ Keep
    /\ now + DAY <= StartTime + MaxDays * DAY + MaxFine
    /\ now' = now + DAY
    /\ ev' = NoEv
    /\ UNCHANGED <<timers, chain, walletAcct, chainId, dash, listeners,
                   chainListener, failToast, form, ops>>

Blocks == {b \in {block, block + 1} : b <= MaxBlock}

----------------------------------------------------------------------------

InitWith(budget) ==
    /\ now = StartTime
    /\ block = 0
    /\ ledger = LedgerInit
    /\ walletAcct = "0xA"
    /\ chainId = RequiredChain
    /\ chainListener = FALSE
    /\ connected = FALSE
    /\ account = ""
    /\ balance = "0"
    /\ demoMode = FALSE
    /\ unlockStatus = DefaultStatus
    /\ listeners = FALSE
    /\ failToast = FALSE
    /\ timers = {}
    /\ number = NoNumber
    /\ isCommitting = FALSE
    /\ isRevealing = FALSE
    /\ unlockFailed = FALSE
    /\ ops = EmptyBag
    /\ steps = budget
    /\ demoCommitted = NoNumber
    /\ recipient = <<>>
    /\ amount = NoAmount
    /\ isTransferring = FALSE
    /\ isSuccess = FALSE
    /\ transferred = 0
    /\ timestamp = 0
    /\ remaining = NoText
    /\ caught = <<>>
    /\ returned = <<>>
    /\ ev = NoEv

Init == InitWith(MaxSteps)

Next ==
    \/ \E n \in Numbers : SetNumber(n)
    \/ DismissFailed
    \/ handleCommit
    \/ handleReveal
    \/ \E o \in OpSet : DemoCommitDone(o)
    \/ \E o \in OpSet : \E blk \in Blocks : CommitMined(o, blk)
    \/ \E o \in OpSet : CommitReturn(o)
    \/ \E o \in OpSet : CommitThrow(o)
    \/ \E o \in OpSet : \E success \in BOOLEAN : DemoRevealDone(o, success)
    \/ \E o \in OpSet : \E blk \in Blocks : \E lucky \in BOOLEAN :
           RevealMined(o, blk, lucky)
    \/ \E o \in OpSet : RevealReturn(o)
    \/ \E o \in OpSet : RevealCaught(o)
    \/ \E t \in timers : Poll(t)
    \/ \E t \in timers : PollReturns(t)
    \/ \E o \in OpSet : RefreshBalance(o)
    \/ \E o \in OpSet : RefreshStatus(o)
    \/ \E o \in OpSet : RefreshThrow(o)
    \/ \E o \in OpSet : RefreshCaught(o)
    \/ ConnectDemo
    \/ ConnectLive
    \/ TryDemoMode
    \/ UseDemoMode
    \/ DismissToast
    \/ \E o \in OpSet : \E how \in {"match", "switch", "add"} :
           ConnectResolve(o, how)
    \/ \E o \in OpSet : ConnectThrow(o)
    \/ \E o \in OpSet : \E reads \in {"both", "status", "none"} :
           ConnectFinish(o, reads)
    \/ handleDisconnect
    \/ \E b \in LiveAccounts : AccountsChanged(b)
    \/ AccountsEmptied
    \/ ChainChanged
    \/ ChainChangedUnheard
    \/ TickSecond
    \/ TickDay

Spec == Init /\ [][Next]_vars

(* The program where no wallet is installed: connectWallet always throws   *)
(* and no wallet notification arrives; only the simulated backend is used. *)
InitDemo == InitWith(MaxStepsDemo)

NextDemo ==
    \/ \E n \in Numbers : SetNumber(n)
    \/ DismissFailed
    \/ handleCommit
    \/ handleReveal
    \/ \E o \in OpSet : DemoCommitDone(o)
    \/ \E o \in OpSet : \E success \in BOOLEAN : DemoRevealDone(o, success)
    \/ \E t \in timers : PollReturns(t)
    \/ ConnectDemo
    \/ TryDemoMode
    \/ UseDemoMode
    \/ DismissToast
    \/ \E o \in OpSet : ConnectThrow(o)
    \/ handleDisconnect
    \/ TickSecond
    \/ TickDay

SpecDemo == InitDemo /\ [][NextDemo]_vars

(* The program where the user never asks for demo mode: only the live      *)
(* backend is used.                                                         *)
InitLive == InitWith(MaxStepsLive)

NextLive ==
    \/ \E n \in Numbers : SetNumber(n)
    \/ DismissFailed
    \/ handleCommit
    \/ handleReveal
    \/ \E o \in OpSet : \E blk \in Blocks : CommitMined(o, blk)
    \/ \E o \in OpSet : CommitReturn(o)
    \/ \E o \in OpSet : CommitThrow(o)
    \/ \E o \in OpSet : \E blk \in Blocks : \E lucky \in BOOLEAN :
           RevealMined(o, blk, lucky)
    \/ \E o \in OpSet : RevealReturn(o)
    \/ \E o \in OpSet : RevealCaught(o)
    \/ \E t \in timers : Poll(t)
    \/ \E t \in timers : PollReturns(t)
    \/ \E o \in OpSet : RefreshBalance(o)
    \/ \E o \in OpSet : RefreshStatus(o)
    \/ \E o \in OpSet : RefreshThrow(o)
    \/ \E o \in OpSet : RefreshCaught(o)
    \/ ConnectLive
    \/ \E o \in OpSet : \E how \in {"match", "switch", "add"} :
           ConnectResolve(o, how)
    \/ \E o \in OpSet : ConnectThrow(o)
    \/ \E o \in OpSet : \E reads \in {"both", "status", "none"} :
           ConnectFinish(o, reads)
    \/ handleDisconnect
    \/ \E b \in LiveAccounts : AccountsChanged(b)
    \/ AccountsEmptied
    \/ ChainChanged
    \/ ChainChangedUnheard
    \/ TickSecond
    \/ TickDay

SpecLive == InitLive /\ [][NextLive]_vars

----------------------------------------------------------------------------
(* revealNumber's catch block on its own: two reveals that threw, and the  *)
(* error field returned for each                                           *)

InitMsg ==
    /\ now = StartTime
    /\ block = 0
    /\ ledger = LedgerInit
    /\ walletAcct = "0xA"
    /\ chainId = RequiredChain
    /\ chainListener = FALSE
    /\ connected = FALSE
    /\ account = ""
    /\ balance = "0"
    /\ demoMode = FALSE
    /\ unlockStatus = DefaultStatus
    /\ listeners = FALSE
    /\ failToast = FALSE
    /\ timers = {}
    /\ number = NoNumber
    /\ isCommitting = FALSE
    /\ isRevealing = FALSE
    /\ unlockFailed = FALSE
    /\ ops = EmptyBag
    /\ steps = 0
    /\ demoCommitted = NoNumber
    /\ recipient = <<>>
    /\ amount = NoAmount
    /\ isTransferring = FALSE
    /\ isSuccess = FALSE
    /\ transferred = 0
    /\ timestamp = 0
    /\ remaining = NoText
    /\ caught \in Thrown \X Thrown
    /\ returned = <<>>
    /\ ev = NoEv

(* return { success: false, hash: "", error: errorMessage } *)
revealNumberCatch ==
    /\ returned = <<>>
    /\ returned' = <<errorMessage(caught[1].message),
                     errorMessage(caught[2].message)>>
    /\ ev' = Ev("revealNumberCatch", NoOp, "none")
    /\ UNCHANGED <<now, chain, walletAcct, chainId, chainListener, dash,
                   listeners, failToast, timers, form, ops, steps,
                   demoCommitted, caught, tform, transferred, timestamp,
                   remaining>>

NextMsg == revealNumberCatch

SpecMsg == InitMsg /\ [][NextMsg]_vars

----------------------------------------------------------------------------
(* TransferTokens, in a session whose tokens are unlocked and whose        *)
(* Transfer tab is open                                                    *)

Pad(n) == [i \in 1..n |-> "a"]
Recipients ==
    {<<"0", "x">> \o Pad(40), <<"0", "x">> \o Pad(39),
     <<"0", "x">> \o Pad(41), <<"0", "X">> \o Pad(40), Pad(42)}
Amounts ==
    {Typed(-1, 0), Typed(0, 0), Typed(0, 1), Typed(200, 0), Typed(500, 0),
     Typed(500, 1), Typed(1000, 0), Typed(1000, 1)}

(* recipient.startsWith("0x") *)
startsWith0x(r) == Len(r) >= 2 /\ r[1] = "0" /\ r[2] = "x"

(* the inputs and the Max button are disabled while pending or complete *)
TransferInputEnabled == Mounted /\ ~(isTransferring \/ isSuccess)

SetRecipient(r) ==
    /\ Event
    /\ TransferInputEnabled
    /\ r # recipient
    /\ recipient' = r
    /\ ev' = Ev("SetRecipient", NoOp, "none")
    /\ UNCHANGED <<timers, now, chain, walletAcct, chainId, chainListener,
                   dash, listeners, failToast, form, ops, demoCommitted,
                   timestamp, remaining, caught, returned, amount, isTransferring, isSuccess,
                   transferred>>

SetAmount(a) ==
    /\ Event
    /\ TransferInputEnabled
    /\ a # amount
    /\ amount' = a
    /\ ev' = Ev("SetAmount", NoOp, "none")
    /\ UNCHANGED <<timers, now, chain, walletAcct, chainId, chainListener,
                   dash, listeners, failToast, form, ops, demoCommitted,
                   timestamp, remaining, caught, returned, recipient, isTransferring, isSuccess,
                   transferred>>

(* the Max button: setAmount(unlockedAmount) *)
SetMax ==
    /\ Event
    /\ TransferInputEnabled
    /\ amount' = Typed(parseFloat(unlockStatus.unlockedAmount), 0)
    /\ amount' # amount
    /\ ev' = Ev("SetMax", NoOp, "none")
    /\ UNCHANGED <<timers, now, chain, walletAcct, chainId, chainListener,
                   dash, listeners, failToast, form, ops, demoCommitted,
                   timestamp, remaining, caught, returned, recipient, isTransferring, isSuccess,
                   transferred>>

(* handleTransfer, the validation: the toast it ends with, or "ok" *)
handleTransferCheck ==
    IF recipient = <<>> \/ amount.empty THEN "missing"
    ELSE IF ~startsWith0x(recipient) \/ Len(recipient) # 42 THEN "address"
    ELSE IF NotPositive(parseFloatAmount(amount)) THEN "amount"
    ELSE IF Greater(parseFloatAmount(amount),
                    parseFloat(unlockStatus.unlockedAmount))
    THEN "insufficient"
    ELSE "ok"

(* handleTransfer up to its first await *)
handleTransfer ==
    /\ Event
    /\ Mounted /\ ~isSuccess /\ ~isTransferring
    /\ IF handleTransferCheck = "ok"
       THEN LET o == NewOp("transfer", IF demoMode THEN "timer" ELSE "sent",
                           "none")
            IN  /\ ops' = ops (+) One(o)
                /\ isTransferring' = TRUE
                /\ ev' = Ev("handleTransfer", o, "sent")
       ELSE /\ ev' = Ev("handleTransfer", NoOp, handleTransferCheck)
            /\ UNCHANGED <<ops, isTransferring>>
    /\ Fits
    /\ UNCHANGED <<timers, now, chain, walletAcct, chainId, chainListener,
                   dash, listeners, failToast, form, demoCommitted, caught,
                   timestamp, remaining, returned, recipient, amount, isSuccess, transferred>>

(* handleTransfer, demo branch, after the 2000 ms delay *)
DemoTransferDone(o) ==
    /\ Completion
    /\ o.kind = "transfer" /\ o.phase = "timer"
    /\ isTransferring' = FALSE
    /\ isSuccess' = TRUE
    /\ transferred' = transferred + o.amt.tokens
    /\ ops' = (ops (-) One(o)) (+) One([o EXCEPT !.phase = "reset"])
    /\ ev' = Ev("TransferDone", o, "success")
    /\ UNCHANGED <<timers, now, chain, walletAcct, chainId, chainListener,
                   dash, listeners, failToast, form, demoCommitted, caught,
                   timestamp, remaining, returned, recipient, amount>>

(* the transfer transaction is mined *)
TransferMined(o) ==
    /\ Completion
    /\ Keep
    /\ o.kind = "transfer" /\ o.phase = "sent"
    /\ o.signer \in DOMAIN ledger
    /\ o.net = RequiredChain
    /\ LET out == TransferOutcome(ledger[o.signer], parseEther(o.amt), now)
       IN  /\ ledger' = [ledger EXCEPT ![o.signer] =
                             LedgerTransfer(@, parseEther(o.amt), out)]
           /\ ops' = (ops (-) One(o))
                     (+) One([o EXCEPT !.phase = "mined", !.res = out])
           /\ ev' = Ev("TransferMined", o, out)
    /\ UNCHANGED <<timers, now, block, walletAcct, chainId, chainListener,
                   dash, listeners, failToast, form>>

(* handleTransfer, live branch, after transferTokens returned *)
TransferReturn(o) ==
    /\ Completion
    /\ o.kind = "transfer" /\ o.phase = "mined"
    /\ isTransferring' = FALSE
    /\ IF o.res = "success"
       THEN /\ isSuccess' = TRUE
            /\ transferred' = transferred + o.amt.tokens
            /\ ops' = (ops (-) One(o)) (+) One([o EXCEPT !.phase = "reset"])
                      (+) refreshStatusOf(o, 1)
       ELSE /\ ops' = ops (-) One(o)
            /\ UNCHANGED <<isSuccess, transferred>>
    /\ Fits
    /\ ev' = Ev("TransferDone", o, o.res)
    /\ UNCHANGED <<timers, now, chain, walletAcct, chainId, chainListener,
                   dash, listeners, failToast, form, demoCommitted, caught,
                   timestamp, remaining, returned, recipient, amount>>

(* the transaction never reached the ledger (rejected in the wallet, gas   *)
(* estimation reverted, transport): transferTokens catches and returns no  *)
(* success                                                                 *)
TransferCaught(o) ==
    /\ Completion
    /\ o.kind = "transfer" /\ o.phase = "sent"
    /\ isTransferring' = FALSE
    /\ ops' = ops (-) One(o)
    /\ ev' = Ev("TransferCaught", o, "error")
    /\ UNCHANGED <<timers, now, chain, walletAcct, chainId, chainListener,
                   dash, listeners, failToast, form, demoCommitted, caught,
                   timestamp, remaining, returned, recipient, amount, isSuccess, transferred>>

(* the 3000 ms timeout after a success: the form is reset *)
ResetForm(o) ==
    /\ Completion
    /\ o.kind = "transfer" /\ o.phase = "reset"
    /\ isSuccess' = FALSE
    /\ recipient' = <<>>
    /\ amount' = NoAmount
    /\ ops' = ops (-) One(o)
    /\ ev' = Ev("ResetForm", o, "none")
    /\ UNCHANGED <<timers, now, chain, walletAcct, chainId, chainListener,
                   dash, listeners, failToast, form, demoCommitted, caught,
                   timestamp, remaining, returned, isTransferring, transferred>>

(* a session after a successful reveal at StartTime, simulated or live *)
InitTransfer ==
    /\ now = StartTime
    /\ block = 2
    /\ walletAcct = "0xA"
    /\ chainId = RequiredChain
    /\ connected = TRUE
    /\ demoMode \in BOOLEAN
    /\ ledger = IF demoMode THEN LedgerInit
                ELSE [LedgerInit EXCEPT !["0xA"] =
                          LedgerReveal(@, "success", StartTime)]
    /\ account = IF demoMode THEN DemoAccount ELSE "0xA"
    /\ balance = IF demoMode THEN DemoBalance
                 ELSE getTokenBalance(ledger["0xA"])
    /\ unlockStatus = IF demoMode THEN handleUnlockDemo
                      ELSE checkIfTokensUnlocked(ledger["0xA"], now)
    /\ listeners = ~demoMode
    /\ chainListener = ~demoMode
    /\ failToast = FALSE
    /\ timers = {Closure(connected, account, demoMode)}
    /\ number = NoNumber
    /\ isCommitting = FALSE
    /\ isRevealing = FALSE
    /\ unlockFailed = FALSE
    /\ ops = EmptyBag
    /\ steps = MaxStepsTransfer
    /\ demoCommitted = NoNumber
    /\ recipient = <<>>
    /\ amount = NoAmount
    /\ isTransferring = FALSE
    /\ isSuccess = FALSE
    /\ transferred = 0
    /\ timestamp = 0
    /\ remaining = NoText
    /\ caught = <<>>
    /\ returned = <<>>
    /\ ev = NoEv

NextTransfer ==
    \/ \E r \in Recipients : SetRecipient(r)
    \/ \E a \in Amounts : SetAmount(a)
    \/ SetMax
    \/ handleTransfer
    \/ \E o \in OpSet : DemoTransferDone(o)
    \/ \E o \in OpSet : TransferMined(o)
    \/ \E o \in OpSet : TransferReturn(o)
    \/ \E o \in OpSet : TransferCaught(o)
    \/ \E o \in OpSet : ResetForm(o)
    \/ \E o \in OpSet : RefreshBalance(o)
    \/ \E o \in OpSet : RefreshStatus(o)
    \/ \E o \in OpSet : RefreshThrow(o)

SpecTransfer == InitTransfer /\ [][NextTransfer]_vars

----------------------------------------------------------------------------
(* formatTimeRemaining on its own: a timestamp around the current time, a  *)
(* day ahead at most                                                       *)

Diffs == (0 - 3)..MaxDiff \cup {DAY - 1, DAY}

InitFmt ==
    /\ now = StartTime
    /\ block = 0
    /\ ledger = LedgerInit
    /\ walletAcct = "0xA"
    /\ chainId = RequiredChain
    /\ chainListener = FALSE
    /\ connected = FALSE
    /\ account = ""
    /\ balance = "0"
    /\ demoMode = FALSE
    /\ unlockStatus = DefaultStatus
    /\ listeners = FALSE
    /\ failToast = FALSE
    /\ timers = {}
    /\ number = NoNumber
    /\ isCommitting = FALSE
    /\ isRevealing = FALSE
    /\ unlockFailed = FALSE
    /\ ops = EmptyBag
    /\ steps = 0
    /\ demoCommitted = NoNumber
    /\ recipient = <<>>
    /\ amount = NoAmount
    /\ isTransferring = FALSE
    /\ isSuccess = FALSE
    /\ transferred = 0
    /\ timestamp \in {now + d : d \in Diffs}
    /\ remaining = NoText
    /\ caught = <<>>
    /\ returned = <<>>
    /\ ev = NoEv

(* updateTimes: setTimeRemaining(formatTimeRemaining(...)) *)
updateTimes ==
    /\ remaining = NoText
    /\ remaining' = formatTimeRemaining(timestamp, now)
    /\ ev' = Ev("updateTimes", NoOp, "none")
    /\ UNCHANGED <<now, chain, walletAcct, chainId, chainListener, dash,
                   listeners, failToast, timers, form, ops, steps,
                   demoCommitted, caught, returned, tform, transferred,
                   timestamp>>

NextFmt == updateTimes

SpecFmt == InitFmt /\ [][NextFmt]_vars

----------------------------------------------------------------------------
(* Properties                                                               *)

(* the commit handlers that have not yet reached their backend *)
CommitsStarted(B) ==
    SumCopies({o \in BagToSet(B) : o.kind = "commit"
                                   /\ o.phase \in {"timer", "sent"}}, B)

(* C1: in every reachable state the snapshot's isUnlocked equals           *)
(* (now <= unlockedUntil and unlockedAmount > 0) at the current time.      *)
C1_IsUnlockedDerived ==
    unlockStatus.isUnlocked =
        (now <= unlockStatus.unlockedUntil
         /\ parseFloat(unlockStatus.unlockedAmount) > 0)

(* C2: at most one mutating operation of the session is in flight: the     *)
(* session is never committing and revealing at once.                      *)
C2_OneMutationInFlight == ~(isCommitting /\ isRevealing)

(* C3: the completion of a commit or reveal whose session was destroyed    *)
(* changes neither the status snapshot nor the balance.                    *)
C3_StaleCompletionDiscarded ==
    [][(ev'.a \in {"CommitDone", "CommitThrow", "RevealDone", "RevealCaught"}
        /\ ~ev'.o.cur)
       => (unlockStatus' = unlockStatus /\ balance' = balance)]_vars

(* C4: after a reveal outcome, success or failure, the snapshot has        *)
(* hasCommit = false: the simulated reveal writes such a snapshot, and     *)
(* the snapshot read from the ledger once the reveal is mined is such.     *)
C4_RevealClearsCommit ==
    [][/\ (ev'.a = "RevealDone" /\ ev'.o.demo) => ~unlockStatus'.hasCommit
       /\ ev'.a = "RevealMined"
          => ~checkIfTokensUnlocked(ledger'[ev'.o.signer], now').hasCommit]_vars

C4_Witness ==
    /\ ev.a = "RevealDone" /\ ev.o.demo /\ ev.res = "random check failed"
    /\ demoCommitted # NoNumber
    /\ ~unlockStatus.hasCommit

(* C5: a commit is started only when the snapshot has hasCommit = false;   *)
(* with hasCommit = true nothing is sent to either backend.                *)
C5_NoCommitWhileCommitted ==
    [][CommitsStarted(ops') > CommitsStarted(ops)
       => ~unlockStatus.hasCommit]_vars

C5_Witness ==
    /\ FormShown /\ number # NoNumber /\ ~isCommitting /\ ~isRevealing
    /\ steps > 0 /\ BagCardinality(ops) < MaxOps
    /\ unlockStatus.hasCommit
    /\ ~CommitEnabled

(* C6: a reveal whose number differs from the committed one never          *)
(* succeeds: its outcome is the failure hash mismatch, the commit is       *)
(* cleared and the cooldown is set.                                        *)
C6_MismatchNeverSucceeds ==
    [][/\ (ev'.a = "RevealDone" /\ ev'.o.demo /\ ev'.o.num # demoCommitted)
          => /\ ev'.res = "hash mismatch"
             /\ ~unlockStatus'.hasCommit
             /\ unlockStatus'.nextAttemptTime = now + DAY
       /\ (ev'.a = "RevealMined"
           /\ ledger[ev'.o.signer].commitHash
                \notin {HashZero, HashOf(ev'.o.num)})
          => ev'.res # "success"]_vars

(* C7: a reveal made while now < nextAttemptTime never has the outcome     *)
(* success.                                                                *)
C7_NoSuccessInCooldown ==
    [][/\ (ev'.a = "RevealDone" /\ ev'.o.demo /\ ev'.res = "success")
          => ~(now < unlockStatus.nextAttemptTime)
       /\ (ev'.a = "RevealMined" /\ ev'.res = "success")
          => ~(now < ledger[ev'.o.signer].lastAttempt + DAY)]_vars

(* C8: no commit is started while now < nextAttemptTime.                   *)
C8_NoCommitInCooldown ==
    [][CommitsStarted(ops') > CommitsStarted(ops) => ~inCooldown]_vars

(* the balance of the account the session tracks *)
FullBalance ==
    IF account = DemoAccount THEN DemoBalance
    ELSE getTokenBalance(LedgerOf(account))

(* C9: after a reveal with outcome success in a session that tracks an     *)
(* account, the snapshot is unlocked until the time of the reveal + 86400, *)
(* its unlockedAmount is the account's balance and hasCommit is false.     *)
C9_SuccessUnlocksBalance ==
    [][/\ (ev'.a = "RevealDone" /\ ev'.o.demo /\ ev'.res = "success"
           /\ ev'.o.cur /\ connected /\ account # "")
          => /\ unlockStatus'.isUnlocked
             /\ unlockStatus'.unlockedUntil = now + DAY
             /\ unlockStatus'.unlockedAmount = FullBalance
             /\ ~unlockStatus'.hasCommit
       /\ (ev'.a = "RevealMined" /\ ev'.res = "success")
          => LET st == checkIfTokensUnlocked(ledger'[ev'.o.signer], now)
             IN  /\ st.unlockedUntil = now + DAY
                 /\ st.unlockedAmount = getTokenBalance(ledger'[ev'.o.signer])
                 /\ ~st.hasCommit]_vars

(* C10: after a reveal with an outcome failure the snapshot has            *)
(* nextAttemptTime = time of the reveal + 24h: the simulated reveal writes *)
(* it, and the snapshot read from the ledger once the reveal is mined      *)
(* has it.                                                                 *)
C10_FailureSetsCooldown ==
    [][/\ (ev'.a = "RevealDone" /\ ev'.o.demo /\ ev'.res # "success")
          => unlockStatus'.nextAttemptTime = now + DAY
       /\ (ev'.a = "RevealMined" /\ ev'.res # "success")
          => checkIfTokensUnlocked(ledger'[ev'.o.signer], now').nextAttemptTime
             = now + DAY]_vars

C10_Witness ==
    /\ ev.a = "RevealMined" /\ ev.res = "random check failed"
    /\ ledger[ev.o.signer].lastAttempt = now
    /\ ledger[ev.o.signer].commitHash = HashZero

(* C11: a reveal by an account that has no commit has the outcome failure  *)
(* "no commit found", sets nextAttemptTime to the time of the reveal + 24h *)
(* and leaves hasCommit false; it never succeeds, on either backend.       *)
C11_NoCommitRevealFails ==
    [][/\ (ev'.a = "RevealDone" /\ ev'.o.demo /\ ~unlockStatus.hasCommit)
          => /\ ev'.res = "no commit found"
             /\ unlockStatus'.nextAttemptTime = now + DAY
             /\ ~unlockStatus'.hasCommit
       /\ (ev'.a = "RevealMined"
           /\ ledger[ev'.o.signer].commitHash = HashZero)
          => LET st == checkIfTokensUnlocked(ledger'[ev'.o.signer], now)
             IN  /\ ev'.res = "no commit found"
                 /\ st.nextAttemptTime = now + DAY
                 /\ ~st.hasCommit]_vars

(* C12: a reveal that never reached the ledger (signing rejected, or the   *)
(* transport failed) does not put the session in the attempt-failed state  *)
(* and does not consume the attempt.                                       *)
C12_HardFailureDistinct ==
    [][(ev'.a = "RevealCaught" /\ ev'.o.mounted)
       => (~unlockFailed' /\ ledger' = ledger)]_vars

(* C13: the guards of commit and reveal (pending flags, hasCommit,         *)
(* cooldown) apply in demo mode exactly as they apply with the live        *)
(* backend: in every reachable state each button is enabled iff the guard  *)
(* that does not look at the backend holds.                                *)
C13_GuardsBackendAgnostic ==
    /\ CommitEnabled
       <=> (FormShown /\ ~(number = NoNumber \/ isCommitting \/ isRevealing
                           \/ unlockStatus.hasCommit \/ inCooldown))
    /\ RevealEnabled
       <=> (FormShown /\ unlockStatus.hasCommit
            /\ ~(isRevealing \/ inCooldown))

(* C14: once the time has passed unlockedUntil, a refresh (the polling one *)
(* or one that read the status) leaves a snapshot that is not unlocked.    *)
C14_PassiveExpiry ==
    [][ev'.a \in {"RefreshStatus", "PollReturns"}
       => ~(unlockStatus'.isUnlocked /\ now' > unlockStatus'.unlockedUntil)]_vars

C16_SwitchStartsFresh ==
    [][(ev'.a = "AccountsChanged" /\ account' # account)
       => /\ unlockStatus' = DefaultStatus
          /\ balance' = "0"
          /\ number' = NoNumber
          /\ ~isCommitting' /\ ~isRevealing' /\ ~unlockFailed'
          /\ \A o \in BagToSet(ops') :
                 (o.kind = "refresh" /\ o.cur) => o.acct = account']_vars

(* C17: while disconnected (no account, not connected, not in demo mode)   *)
(* the balance is "0" and the snapshot is the all-default one, whatever    *)
(* handler completes.                                                      *)
C17_DisconnectClears ==
    (~connected /\ ~demoMode /\ account = "")
    => (balance = "0" /\ unlockStatus = DefaultStatus)

(* C18: at most one polling timer is live, it exists exactly while the     *)
(* dashboard is connected or in demo mode, and it belongs to the current   *)
(* session: it holds the refreshStatus of the current account, connection  *)
(* and mode, so no polling refresh starts for a destroyed session.         *)
C18_OnePollingTimer ==
    /\ Cardinality(timers) <= 1
    /\ \A t \in timers : t = Closure(connected, account, demoMode)
    /\ Mounted <=> timers # {}

C18_Witness ==
    /\ ev.a = "handleDisconnect"
    /\ timers = {}
    /\ \E o \in OpSet : o.kind = "refresh" /\ ~o.cur

(* the page after a reload, before anyone connects: only transactions that *)
(* were handed to the wallet before the reload are still in flight         *)
Invalidated ==
    /\ ~connected /\ ~demoMode /\ account = "" /\ ~listeners
    /\ \A o \in OpSet : o.phase = "orphan"

C20_FailedRefreshKeepsSnapshot ==
    [][ev'.a \in {"RefreshThrow", "RefreshCaught"}
       => unlockStatus' = unlockStatus]_vars

(* the refreshes of account a that have not yet read anything *)
RefreshCount(B, a) ==
    SumCopies({o \in BagToSet(B) : o.kind = "refresh" /\ o.phase = "bal"
                                   /\ o.acct = a}, B)

(* C21: every commit or reveal that completes with success or an outcome   *)
(* failure, on either backend, is followed by a refresh: a refreshStatus   *)
(* that reads the ledger for the handler's account is started.             *)
C21_CompletionRefreshes ==
    [][ev'.a \in {"CommitDone", "RevealDone"}
       => RefreshCount(ops', ev'.o.acct) > RefreshCount(ops, ev'.o.acct)]_vars

(* C22: the failure flag is raised only by a reveal outcome failure, and   *)
(* it is not set once a later commit has been started.                     *)
C22_FailedFlagOnlyByOutcome ==
    [][/\ (unlockFailed' /\ ~unlockFailed)
          => (ev'.a = "RevealDone" /\ ev'.res # "success")
       /\ ev'.a = "handleCommit" => ~unlockFailed']_vars

(* C23: when the failure card that a reveal outcome failure raised is      *)
(* dismissed, the snapshot has hasCommit = false: the session is not back  *)
(* in the committed state.                                                 *)
C23_FailureLeavesNoCommit ==
    [][(ev.a = "RevealDone" /\ ev.res # "success" /\ ev.o.mounted
        /\ ev'.a = "DismissFailed")
       => ~unlockStatus'.hasCommit]_vars

C25_PendingFlagReturnsIdle ==
    [][/\ (ev'.a \in {"CommitDone", "CommitThrow"} /\ ev'.o.mounted)
          => ~isCommitting'
       /\ (ev'.a \in {"RevealDone", "RevealCaught"} /\ ev'.o.mounted)
          => ~isRevealing'
       /\ isCommitting'
          <=> \E o \in BagToSet(ops') : o.kind = "commit" /\ o.mounted
       /\ isRevealing'
          <=> \E o \in BagToSet(ops') : o.kind = "reveal" /\ o.mounted]_vars

C25_Witness ==
    /\ ev.a = "RevealCaught" /\ ev.o.mounted
    /\ ~isRevealing /\ unlockFailed

(* C26: connectWallet returns only on the required chain, and every       *)
(* commit or reveal transaction of a live session, and every read of a     *)
(* live refresh, is issued while the wallet is on the required chain.      *)
C26_CallsOnlyOnRequiredChain ==
    [][/\ ev'.a = "ConnectResolve" => chainId' = RequiredChain
       /\ (ev'.a \in {"handleCommit", "handleReveal"} /\ ~ev'.o.demo)
          => ev'.o.net = RequiredChain
       /\ ev'.a \in {"RefreshBalance", "RefreshStatus"}
          => chainId' = RequiredChain]_vars

C29_StaleRefreshDiscarded ==
    [][(ev'.a \in {"RefreshBalance", "RefreshStatus", "RefreshCaught"}
        /\ ~ev'.o.cur)
       => (unlockStatus' = unlockStatus /\ balance' = balance)]_vars

(* C30: activating demo mode from the disconnected state gives a connected *)
(* demo session with the simulated account, balance "1000.0" and the       *)
(* default snapshot, and starts no call to the wallet.                     *)
C30_DemoActivationConnects ==
    [][ev'.a \in {"TryDemoMode", "UseDemoMode"}
       => /\ demoMode' /\ connected'
          /\ account' = DemoAccount
          /\ balance' = DemoBalance
          /\ unlockStatus' = DefaultStatus
          /\ \A o \in BagToSet(ops') : o.kind # "connect"]_vars

(* C31: a connect attempt whose connectWallet failed, or gave no account,  *)
(* changes neither connected nor the account, registers no callback and    *)
(* starts no polling timer and no refresh, and the attempt is over.        *)
C31_FailedConnectStaysOut ==
    [][ev'.a = "ConnectThrow"
       => /\ connected' = connected /\ account' = account
          /\ listeners' = listeners /\ chainListener' = chainListener
          /\ timers' = timers
          /\ CopiesIn(ev'.o, ops') = CopiesIn(ev'.o, ops) - 1
          /\ BagCardinality(ops') = BagCardinality(ops) - 1]_vars

C31_Witness ==
    /\ ev.a = "ConnectThrow" /\ ev.o.via = "button"
    /\ failToast /\ ~connected /\ ~listeners /\ timers = {}

(* C32: while the page is disconnected and no connect is in progress, an   *)
(* account change in the wallet changes neither the account, the balance   *)
(* nor the snapshot.                                                       *)
C32_DisconnectedIgnoresAccounts ==
    [][(ev'.a \in {"AccountsChanged", "AccountsEmptied"}
        /\ ~connected /\ \A o \in OpSet : o.kind # "connect")
       => (account' = account /\ balance' = balance
           /\ unlockStatus' = unlockStatus)]_vars

(* the reveals in flight *)
RevealCount(B) == SumCopies({o \in BagToSet(B) : o.kind = "reveal"}, B)

(* C33: a reveal is started only by handleReveal, and only from a form     *)
(* whose snapshot has hasCommit = true and isUnlocked = false and whose     *)
(* failure flag is clear, so none is started from the no-commit, unlocked  *)
(* or failed screens.                                                      *)
C33_RevealOnlyFromCommitted ==
    [][/\ ev'.a = "handleReveal"
          => (unlockStatus.hasCommit /\ ~unlockStatus.isUnlocked
              /\ ~unlockFailed /\ ev'.o.kind = "reveal")
       /\ RevealCount(ops') > RevealCount(ops)
          => ev'.a = "handleReveal"]_vars

C33_Witness ==
    /\ ev.a = "handleReveal" /\ ~ev.o.demo
    /\ unlockStatus.hasCommit /\ isRevealing
    /\ LedgerOf(ev.o.signer).commitHash = HashZero

(* C34: a transfer is sent, or simulated, only when the recipient starts   *)
(* with 0x and has 42 characters, the amount is greater than 0 and not     *)
(* greater than the snapshot's unlockedAmount and no transfer is in flight; *)
(* when a check fails nothing is sent and nothing changes.                 *)
C34_TransferOnlyWhenValid ==
    [][ev'.a = "handleTransfer"
       => IF ev'.res = "sent"
          THEN /\ startsWith0x(recipient) /\ Len(recipient) = 42
               /\ ~amount.empty
               /\ ~NotPositive(parseEther(amount))
               /\ ~Greater(parseEther(amount),
                           parseFloat(unlockStatus.unlockedAmount))
               /\ \A o \in OpSet :
                      o.kind = "transfer" => o.phase = "reset"
          ELSE /\ ops' = ops /\ ledger' = ledger
               /\ dash' = dash /\ tform' = tform]_vars

(* C35: the transfers of one unlock window that were reported successful   *)
(* never add up to more than the amount unlocked.                          *)
C35_TransfersWithinGrant ==
    transferred <= IF demoMode THEN DemoBalanceTokens ELSE InitialTokens("0xA")

(* C36: formatTimeRemaining(t) is "Expired" exactly when t - now <= 0;     *)
(* otherwise it shows h hours and m minutes with h = floor((t - now) /     *)
(* 3600), 0 <= m <= 59 and h*3600 + m*60 <= t - now < h*3600 + (m+1)*60.   *)
C36_TimeRemaining ==
    remaining # NoText
    => LET diff == timestamp - now
           h == remaining.hours
           m == remaining.minutes
       IN  /\ remaining.text = "Expired" <=> diff <= 0
           /\ diff > 0
              => /\ h = diff \div 3600
                 /\ 0 <= m /\ m <= 59
                 /\ h * 3600 + m * 60 <= diff
                 /\ diff < h * 3600 + (m + 1) * 60
                 /\ remaining.text
                    = ToString(h) \o "h " \o ToString(m) \o "m"

C36_Witness ==
    /\ remaining.text = "1h 59m"
    /\ timestamp - now = 2 * 3600 - 1

====
